---------------------------- MODULE Spec2Model ----------------------------
(***************************************************************************)
(* A model of the Twilio WhatsApp relay service (src/main.py).             *)
(*                                                                         *)
(* Strings are sequences of one-character strings, so that startswith,     *)
(* slicing, strip, lower, endswith and urlparse are computed the way the   *)
(* Python code computes them.  An Optional[str] is a sequence of zero      *)
(* (None) or one (the string) elements.                                    *)
(***************************************************************************)
EXTENDS Integers, Sequences, FiniteSets, TLC

(***************************************************************************)
(* Bounds of the model                                                     *)
(***************************************************************************)
\* the longest run of digits tried after "whatsapp:+"
MaxDigits == 21
\* how far beyond a length limit the padded bodies and URLs go
MaxOver == 2
\* the longest run of whitespace put around a body
MaxPad == 2

(***************************************************************************)
(* Program constants                                                       *)
(***************************************************************************)
\* phone_number = v[9:]
PrefixCut == 9
\* len(phone_number) < 10
MinPhoneLen == 10
\* len(phone_number) > 20
MaxPhoneLen == 20
\* len(v) > 1600
MaxBodyLen == 1600
\* len(v) > 2000
MaxUrlLen == 2000

(***************************************************************************)
(* Strings                                                                 *)
(***************************************************************************)
Rep(c, n) == [i \in 1..n |-> c]

StartsWith(s, p) == Len(s) >= Len(p) /\ SubSeq(s, 1, Len(p)) = p

EndsWith(s, p) == Len(s) >= Len(p) /\ SubSeq(s, Len(s) - Len(p) + 1, Len(s)) = p

\* s[n:]
DropFirst(s, n) == SubSeq(s, n + 1, Len(s))

AsciiDigits == {"0", "1", "2", "3", "4", "5", "6", "7", "8", "9"}

\* the characters c for which c.isdigit() is true: the ASCII digits and the
\* other Unicode digits, of which U+00B2 (superscript two) stands here
DigitChars == AsciiDigits \cup {"U+00B2"}

\* str.isdigit(): false for the empty string
IsDigit(s) == Len(s) > 0 /\ \A i \in 1..Len(s) : s[i] \in DigitChars

Whitespace == {" ", "\t", "\n"}

RECURSIVE FirstNonSpace(_, _)
FirstNonSpace(s, i) ==
    IF i > Len(s) \/ s[i] \notin Whitespace THEN i ELSE FirstNonSpace(s, i + 1)

RECURSIVE LastNonSpace(_, _)
LastNonSpace(s, i) ==
    IF i < 1 \/ s[i] \notin Whitespace THEN i ELSE LastNonSpace(s, i - 1)

\* str.strip()
Strip(s) == SubSeq(s, FirstNonSpace(s, 1), LastNonSpace(s, Len(s)))

LowerChar(c) ==
    CASE c = "P" -> "p"
      [] c = "N" -> "n"
      [] c = "G" -> "g"
      [] c = "H" -> "h"
      [] OTHER -> c

\* str.lower()
Lower(s) == [i \in 1..Len(s) |-> LowerChar(s[i])]

Letters == {"a", "c", "d", "e", "f", "g", "h", "j", "n", "o", "p", "s", "t",
            "w", "x", "P", "N", "G", "H"}

SchemeChars == Letters \cup AsciiDigits \cup {"+", "-", "."}

MinOf(S) == CHOOSE x \in S : \A y \in S : x <= y

\* the first index >= from of s holding a character of cs, or Len(s) + 1
FindAny(s, cs, from) ==
    LET hits == {i \in from..Len(s) : s[i] \in cs}
    IN  IF hits = {} THEN Len(s) + 1 ELSE MinOf(hits)

(***************************************************************************)
(* urllib.parse.urlparse, as far as scheme, netloc and path                *)
(***************************************************************************)
\* the index of the ':' that ends a scheme, or 0 when the URL has no scheme
SchemeEnd(u) ==
    LET i == FindAny(u, {":"}, 1)
    IN  IF /\ i <= Len(u)
           /\ i > 1
           /\ u[1] \in Letters
           /\ \A k \in 1..(i - 1) : u[k] \in SchemeChars
        THEN i
        ELSE 0

UrlScheme(u) == Lower(SubSeq(u, 1, SchemeEnd(u) - 1))

\* the URL after "scheme:"
AfterScheme(u) == DropFirst(u, SchemeEnd(u))

HasAuthority(u) == StartsWith(AfterScheme(u), <<"/", "/">>)

UrlNetloc(u) ==
    LET r == AfterScheme(u)
    IN  IF HasAuthority(u)
        THEN SubSeq(r, 3, FindAny(r, {"/", "?", "#"}, 3) - 1)
        ELSE <<>>

\* the path: what follows the netloc, up to the first '?' or '#'
UrlPath(u) ==
    LET r == AfterScheme(u)
        p == IF HasAuthority(u)
             THEN DropFirst(r, FindAny(r, {"/", "?", "#"}, 3) - 1)
             ELSE r
    IN  SubSeq(p, 1, FindAny(p, {"?", "#"}, 1) - 1)

(***************************************************************************)
(* WhatsAppMessage: the field validators                                   *)
(***************************************************************************)
Some(s) == <<s>>

None == <<>>

Accept == [ok |-> TRUE, msg |-> ""]

Reject(m) == [ok |-> FALSE, msg |-> m]

WhatsAppPrefix == <<"w", "h", "a", "t", "s", "a", "p", "p", ":", "+">>

validate_whatsapp_number(v) ==
    LET phone_number == DropFirst(v, PrefixCut)
    IN  IF ~StartsWith(v, WhatsAppPrefix)
        THEN Reject("Number must be in format whatsapp:+1234567890")
        ELSE IF ~StartsWith(phone_number, <<"+">>)
        THEN Reject("Phone number must start with a plus sign (+)")
        ELSE IF ~IsDigit(DropFirst(phone_number, 1))
        THEN Reject("Phone number must contain only digits after the plus sign")
        ELSE IF Len(phone_number) < MinPhoneLen \/ Len(phone_number) > MaxPhoneLen
        THEN Reject("Invalid phone number length")
        ELSE Accept

\* validate_body with the length limit applied to the stripped body
validate_body_stripped_length(v) ==
    IF v = <<>> \/ Strip(v) = <<>>
    THEN Reject("Message body cannot be empty")
    ELSE IF Len(Strip(v)) > MaxBodyLen
    THEN Reject("Message too long (max 1600 characters)")
    ELSE Accept

validate_body(v) ==
    IF v = <<>> \/ Strip(v) = <<>>
    THEN Reject("Message body cannot be empty")
    ELSE IF Len(v) > MaxBodyLen
    THEN Reject("Message too long (max 1600 characters)")
    ELSE Accept

allowed_extensions ==
    { <<".", "p", "n", "g">>, <<".", "j", "p", "g">>, <<".", "j", "p", "e", "g">>,
      <<".", "p", "d", "f">>, <<".", "d", "o", "c">>, <<".", "d", "o", "c", "x">> }

\* v is an Optional[str]; every ValueError of the try block is raised again
\* as ValueError('Invalid media URL: ...')
validate_media_url(v) ==
    IF v = None
    THEN Accept
    ELSE LET u == v[1]
         IN  IF UrlScheme(u) = <<>> \/ UrlNetloc(u) = <<>>
             THEN Reject("Invalid media URL: Invalid URL format")
             ELSE IF ~\E ext \in allowed_extensions : EndsWith(Lower(u), ext)
             THEN Reject("Invalid media URL: Unsupported file type")
             ELSE IF Len(u) > MaxUrlLen
             THEN Reject("Invalid media URL: URL is too long")
             ELSE Accept

(***************************************************************************)
(* A JSON value of a request field: absent, null, a string or a number     *)
(***************************************************************************)
Absent == [t |-> "absent", s |-> <<>>]

Null == [t |-> "null", s |-> <<>>]

Str(s) == [t |-> "str", s |-> s]

Num == [t |-> "int", s |-> <<>>]

\* to: str and body: str are required strings
RequiredStr(f) ==
    IF f.t = "absent" THEN Reject("Field required")
    ELSE IF f.t # "str" THEN Reject("Input should be a valid string")
    ELSE Accept

\* media_url: Optional[str] = None
OptionalStr(f) ==
    IF f.t \in {"absent", "null", "str"} THEN Accept
    ELSE Reject("Input should be a valid string")

\* the type of the field is checked first, then its validator runs; the
\* default of media_url is not validated
FieldResult(obj, name) ==
    CASE name = "to" ->
            IF ~RequiredStr(obj.to).ok THEN RequiredStr(obj.to)
            ELSE validate_whatsapp_number(obj.to.s)
      [] name = "body" ->
            IF ~RequiredStr(obj.body).ok THEN RequiredStr(obj.body)
            ELSE validate_body(obj.body.s)
      [] name = "media_url" ->
            IF ~OptionalStr(obj.media_url).ok THEN OptionalStr(obj.media_url)
            ELSE IF obj.media_url.t = "absent" THEN Accept
            ELSE IF obj.media_url.t = "null" THEN validate_media_url(None)
            ELSE validate_media_url(Some(obj.media_url.s))

FieldNames == {"to", "body", "media_url"}

\* the fields of obj that fail validation (pydantic reports them all)
FieldErrors(obj) == {name \in FieldNames : ~FieldResult(obj, name).ok}

\* the WhatsAppMessage built from a valid obj: to as given, body stripped
WhatsAppMessage(obj) ==
    [to |-> obj.to.s,
     body |-> Strip(obj.body.s),
     media_url |-> IF obj.media_url.t = "str" THEN Some(obj.media_url.s) ELSE None]

(***************************************************************************)
(* The state                                                               *)
(***************************************************************************)
VARIABLES
    phase,      \* "importing" (main.py is being imported), "serving", "crashed"
    environ,    \* os.environ: the variables that are set, with their values
    dotenv,     \* the .env file load_dotenv() reads
    globals,    \* the module namespace of main.py: the names bound, with values
    provider,   \* what the provider answers to the call of this step
    req,        \* the last HTTP request
    errors,     \* the locations of its validation errors
    message,    \* the WhatsAppMessage built from it: <<>> or <<message>>
    raised,     \* the exception caught in the endpoint's try block, or "none"
    calls,      \* the provider calls made in this step, in order
    resp        \* the HTTP response

vars == <<phase, environ, dotenv, globals, provider, req, errors, message,
          raised, calls, resp>>

(***************************************************************************)
(* Start-up: the module-level code of main.py                              *)
(***************************************************************************)
required_vars == <<"TWILIO_ACCOUNT_SID", "TWILIO_AUTH_TOKEN", "TWILIO_WHATSAPP_NUMBER">>

RequiredNames == {required_vars[i] : i \in 1..Len(required_vars)}

\* os.getenv(var) is truthy: var is set and not the empty string
Truthy(e, var) == var \in DOMAIN e /\ e[var] # <<>>

\* load_dotenv(): the variables of the file that the environment does not set
LoadDotenv(e, file) ==
    [var \in DOMAIN e \cup DOMAIN file |-> IF var \in DOMAIN e THEN e[var] ELSE file[var]]

\* FirstMissing with the test "os.getenv(var) is None": an empty value passes
FirstUnset(e) ==
    LET bad == {i \in 1..Len(required_vars) : required_vars[i] \notin DOMAIN e}
    IN  IF bad = {} THEN 0 ELSE MinOf(bad)

\* the first required variable that is missing or empty, or 0
FirstMissing(e) ==
    LET bad == {i \in 1..Len(required_vars) : ~Truthy(e, required_vars[i])}
    IN  IF bad = {} THEN 0 ELSE MinOf(bad)

Object == <<"<object>">>

\* the names main.py has bound by assignment when the loop over required_vars
\* is over (the imported names, none of which starts with TWILIO, are left out)
NamesBeforeClient == {"logger", "app", "required_vars", "var"}

\* the names main.py binds by assignment, class and def from the client on
NamesFromClient ==
    {"client", "WhatsAppMessage", "root", "validate_request",
     "send_whatsapp_message", "verify_config", "validation_exception_handler",
     "http_exception_handler"}

Bind(names) == [n \in names |-> Object]

FetchCall(sid) == [op |-> "accounts.fetch", params |-> [sid |-> sid]]

NoRequest == [method |-> "none", path |-> "none", raw |-> "none",
              json |-> [to |-> Absent, body |-> Absent, media_url |-> Absent]]

NoResponse == [status |-> 0, content |-> [none |-> TRUE]]

NoAnswer == [op |-> "none", outcome |-> "none", msg |-> <<>>]

FetchOutcomes == {"ok", "fail"}

\* lines 21-53 and the definitions after them
Startup ==
    /\ phase = "importing"
    /\ \E fetch \in FetchOutcomes :
         LET e == LoadDotenv(environ, dotenv)
         IN  /\ environ' = e
             /\ IF FirstMissing(e) # 0
                THEN /\ phase' = "crashed"
                     /\ raised' = "ValueError"
                     /\ provider' = NoAnswer
                     /\ calls' = <<>>
                     /\ globals' = Bind(NamesBeforeClient)
                ELSE /\ provider' = [op |-> "accounts.fetch", outcome |-> fetch, msg |-> <<>>]
                     /\ calls' = <<FetchCall(e["TWILIO_ACCOUNT_SID"])>>
                     /\ IF fetch = "ok"
                        THEN /\ phase' = "serving"
                             /\ raised' = "none"
                             /\ globals' = Bind(NamesBeforeClient \cup NamesFromClient)
                        ELSE /\ phase' = "crashed"
                             /\ raised' = "TwilioException"
                             /\ globals' = Bind(NamesBeforeClient)
    /\ UNCHANGED <<dotenv, req, errors, message, resp>>

(***************************************************************************)
(* Responses and exception handlers                                        *)
(***************************************************************************)
JSONResponse(code, content) == [status |-> code, content |-> content]

HTTPException(code, detail) == [class |-> "HTTPException", status_code |-> code, detail |-> detail]

\* @app.exception_handler(HTTPException)
http_exception_handler(exc) ==
    JSONResponse(exc.status_code, [detail |-> exc.detail, error_type |-> "api_error"])

\* @app.exception_handler(ValidationError): pydantic's ValidationError
validation_exception_handler(errs) ==
    JSONResponse(422, [detail |-> "Validation failed", errors |-> errs,
                       error_type |-> "validation_error", help |-> "help"])

\* A request body that fails validation raises the framework's
\* RequestValidationError, which is not a pydantic ValidationError: no handler
\* of main.py is registered for it and the framework answers 422 with the
\* errors as detail.
RespondValidation(cls, errs) ==
    IF cls = "ValidationError"
    THEN validation_exception_handler(errs)
    ELSE JSONResponse(422, [detail |-> errs])

Loc(name) == <<"body", name>>

(***************************************************************************)
(* The middleware validate_request                                         *)
(***************************************************************************)
\* the response of the middleware, or NoResponse when it calls call_next
validate_request(r) ==
    IF r.method # "POST" THEN NoResponse
    ELSE IF r.raw = "disconnect"
    THEN JSONResponse(400, [detail |-> "Error processing request"])
    ELSE IF r.raw = "invalid_json"
    THEN JSONResponse(400, [detail |-> "Invalid JSON format in request body"])
    ELSE NoResponse

(***************************************************************************)
(* POST /send-whatsapp/                                                    *)
(***************************************************************************)
Exception(cls, msg) == [class |-> cls, msg |-> msg]

NoException == Exception("none", <<>>)

ChannelTag == <<"w", "h", "a", "t", "s", "a", "p", "p", ":">>

\* message_params of lines 170-178; number is the value of TWILIO_WHATSAPP_NUMBER
message_params(m, number) ==
    LET base == [from_ |-> ChannelTag \o number, to |-> m.to, body |-> m.body]
    IN  IF m.media_url # None /\ m.media_url[1] # <<>>
        THEN [from_ |-> base.from_, to |-> base.to, body |-> base.body,
              media_url |-> <<m.media_url[1]>>]
        ELSE base

CreateCall(params) == [op |-> "messages.create", params |-> params]

\* the except clause of lines 193-201
SendExcept(e) ==
    HTTPException(400, [error |-> "Failed to send message", details |-> e.msg])

\* the exception client.messages.create raises under provider answer p
CreateRaises(p) ==
    CASE p.outcome = "rejected" -> Exception("TwilioRestException", p.msg)
      [] p.outcome = "transport" -> Exception("ConnectionError", p.msg)
      [] OTHER -> NoException

\* the try block of lines 166-191 under module namespace g and provider
\* answer p: the provider calls made, the exception raised, the value returned
SendTry(m, g, p) ==
    IF "TWILIO_WHATSAPP_NUMBER" \notin DOMAIN g
    THEN [calls |-> <<>>,
          exc |-> Exception("NameError", <<"name 'TWILIO_WHATSAPP_NUMBER' is not defined">>),
          ret |-> NoResponse]
    ELSE LET params == message_params(m, g["TWILIO_WHATSAPP_NUMBER"])
         IN  [calls |-> <<CreateCall(params)>>,
              exc |-> CreateRaises(p),
              ret |-> JSONResponse(200,
                        [status |-> "success", message_sid |-> "SM1", to |-> params.to,
                         body |-> params.body,
                         num_media |-> IF "media_url" \in DOMAIN params THEN 1 ELSE 0])]

\* send_whatsapp_message with the HTTPException handler applied
send_whatsapp_message(m, g, p) ==
    LET t == SendTry(m, g, p)
    IN  [calls |-> t.calls,
         raised |-> t.exc.class,
         resp |-> IF t.exc.class = "none" THEN t.ret
                  ELSE http_exception_handler(SendExcept(t.exc))]

(***************************************************************************)
(* GET /verify-config and GET /                                            *)
(***************************************************************************)
\* the except clause of lines 226-235
VerifyExcept(e) ==
    HTTPException(500, [status |-> "error", error |-> "Configuration verification failed",
                        details |-> e.msg])

\* the try block of lines 214-225
VerifyTry(g, p) ==
    IF "TWILIO_ACCOUNT_SID" \notin DOMAIN g
    THEN [calls |-> <<>>,
          exc |-> Exception("NameError", <<"name 'TWILIO_ACCOUNT_SID' is not defined">>),
          ret |-> NoResponse]
    ELSE IF p.outcome # "ok"
    THEN [calls |-> <<FetchCall(g["TWILIO_ACCOUNT_SID"])>>,
          exc |-> Exception("TwilioRestException", p.msg),
          ret |-> NoResponse]
    ELSE IF "TWILIO_WHATSAPP_NUMBER" \notin DOMAIN g
    THEN [calls |-> <<FetchCall(g["TWILIO_ACCOUNT_SID"])>>,
          exc |-> Exception("NameError", <<"name 'TWILIO_WHATSAPP_NUMBER' is not defined">>),
          ret |-> NoResponse]
    ELSE [calls |-> <<FetchCall(g["TWILIO_ACCOUNT_SID"])>>,
          exc |-> NoException,
          ret |-> JSONResponse(200,
                    [status |-> "success",
                     twilio_account_sid |-> g["TWILIO_ACCOUNT_SID"],
                     twilio_number_configured |-> g["TWILIO_WHATSAPP_NUMBER"] # <<>>,
                     twilio_auth_working |-> TRUE,
                     whatsapp_number |-> g["TWILIO_WHATSAPP_NUMBER"],
                     account_status |-> "active"])]

\* verify_config with the HTTPException handler applied
verify_config(g, p) ==
    LET t == VerifyTry(g, p)
    IN  [calls |-> t.calls,
         raised |-> t.exc.class,
         resp |-> IF t.exc.class = "none" THEN t.ret
                  ELSE http_exception_handler(VerifyExcept(t.exc))]

\* root()
root == JSONResponse(200, [message |-> "Twilio WhatsApp API", version |-> "1.0.0",
                           status |-> "running"])

(***************************************************************************)
(* The inputs                                                              *)
(***************************************************************************)
Chars(n) == Rep("1", n)

\* the numbers of digits tried after "whatsapp:+": none, and those around
\* the limits of the validator and of the format
DigitCounts == {0} \cup (8..11) \cup (14..MaxDigits)

\* "whatsapp:+254716160370"
ExampleTo == WhatsAppPrefix \o <<"2", "5", "4", "7", "1", "6", "1", "6", "0", "3", "7", "0">>

Recipients ==
    {WhatsAppPrefix \o Chars(n) : n \in DigitCounts}
    \cup {WhatsAppPrefix \o Chars(n) \o suf :
            n \in {9, 10}, suf \in {<<"x">>, <<"U+00B2">>}}
    \cup {pre \o Chars(12) : pre \in {<<"+">>, ChannelTag, <<>>, <<"W">> \o WhatsAppPrefix}}
    \cup {ExampleTo}

Text(n) == Rep("a", n)

BodyLengths == {0, 1} \cup ((MaxBodyLen - 1)..(MaxBodyLen + MaxOver))

\* the whitespace before and after the text
BodyPads == {<<0, 0>>, <<1, 0>>, <<0, MaxPad>>, <<1, 1>>}

Bodies ==
    {Rep(" ", pad[1]) \o Text(n) \o Rep("\n", pad[2]) :
        n \in BodyLengths, pad \in BodyPads}

ExampleBody == <<"H", "e", "l", "l", "o">>

HttpsHost == <<"h", "t", "t", "p", "s", ":", "/", "/", "h">>

UrlPaths ==
    { <<"/", "f", ".", "p", "n", "g">>, <<"/", "f", ".", "P", "N", "G">>,
      <<"/", "f", ".", "e", "x", "e">>, <<"/", "f", ".", "d", "o", "c", "x">>,
      <<"/", "f">>, <<>> }

UrlTails ==
    { <<>>, <<"?", "x", "=", ".", "p", "n", "g">>, <<"#", "a", ".", "p", "n", "g">> }

\* "https://h/aaa...a.png" of length n
LongUrl(n) == HttpsHost \o <<"/">> \o Text(n - 14) \o <<".", "p", "n", "g">>

MediaUrls ==
    {HttpsHost \o path \o tail : path \in UrlPaths, tail \in UrlTails}
    \cup {pre \o <<"/", "f", ".", "p", "n", "g">> :
            pre \in { <<>>, <<"h", "t", "t", "p", "s", ":">>, <<"/", "/", "h">>,
                      <<"1", "s", ":", "/", "/", "h">> }}
    \cup {LongUrl(n) : n \in (MaxUrlLen - 1)..(MaxUrlLen + MaxOver)}
    \cup {HttpsHost \o <<"/">> \o Text(MaxUrlLen + MaxOver)}
    \cup {<<>>}

Json(to, body, media) == [to |-> to, body |-> body, media_url |-> media]

\* the JSON objects posted: one field varied at a time around a valid
\* request, and some requests with several invalid fields
JsonObjects ==
    {Json(Str(to), Str(ExampleBody), Absent) : to \in Recipients}
    \cup {Json(Str(ExampleTo), Str(b), Absent) : b \in Bodies}
    \cup {Json(Str(ExampleTo), Str(ExampleBody), Str(u)) : u \in MediaUrls}
    \cup {Json(to, body, media) :
            to \in {Absent, Num},
            body \in {Null, Str(<<" ">>)},
            media \in {Num, Str(<<"f">>)}}
    \cup {Json(Str(ExampleTo), Str(<<>>), Str(HttpsHost \o <<"/", "f", ".", "p", "n", "g">>)),
          Json(Str(ExampleTo), Str(ExampleBody), Null)}

Post(raw, obj) == [method |-> "POST", path |-> "/send-whatsapp/", raw |-> raw, json |-> obj]

Get(path) == [method |-> "GET", path |-> path, raw |-> "none", json |-> NoRequest.json]

\* POST bodies that are no JSON object: unreadable, empty, not JSON, a JSON array
OtherRaw == {"disconnect", "empty", "invalid_json", "json_other"}

PostRequests ==
    {Post("json_object", obj) : obj \in JsonObjects}
    \cup {Post(raw, NoRequest.json) : raw \in OtherRaw}

ESC(code) == <<"ESC[", code, "m">>

\* str(e) of the provider's exception for a rejected create, as printed on a
\* terminal: fragments of text and ANSI escape codes
RejectedMsg(reason) ==
    ESC("31") \o ESC("49") \o <<"HTTP Error">> \o ESC("0")
    \o <<" Twilio returned the following information: ">>
    \o ESC("34") \o <<"Unable to create record: ", reason>> \o ESC("0")

CreateAnswers ==
    { [op |-> "messages.create", outcome |-> "ok", msg |-> <<>>],
      [op |-> "messages.create", outcome |-> "rejected",
       msg |-> RejectedMsg("The 'To' number is not a valid phone number.")],
      [op |-> "messages.create", outcome |-> "transport",
       msg |-> <<"Connection refused">>] }

FetchAnswers ==
    { [op |-> "accounts.fetch", outcome |-> "ok", msg |-> <<>>],
      [op |-> "accounts.fetch", outcome |-> "fail", msg |-> <<"Authenticate">>] }

(***************************************************************************)
(* One request: middleware, body validation, endpoint, exception handlers  *)
(***************************************************************************)
Outcome(errs, m, exc, cs, r) ==
    [errors |-> errs, message |-> m, raised |-> exc, calls |-> cs, resp |-> r]

\* POST /send-whatsapp/ with request r, module namespace g, provider answer p
PostSend(r, g, p) ==
    LET mw == validate_request(r)
        errs == IF r.raw = "json_object"
                THEN {Loc(name) : name \in FieldErrors(r.json)}
                ELSE {<<"body">>}
    IN  IF mw.status # 0
        THEN Outcome({}, <<>>, "none", <<>>, mw)
        ELSE IF errs # {}
        THEN Outcome(errs, <<>>, "none", <<>>,
                     RespondValidation("RequestValidationError", errs))
        ELSE LET m == WhatsAppMessage(r.json)
                 h == send_whatsapp_message(m, g, p)
             IN  Outcome({}, <<m>>, h.raised, h.calls, h.resp)

Record(r, p, o) ==
    /\ req' = r
    /\ provider' = p
    /\ errors' = o.errors
    /\ message' = o.message
    /\ raised' = o.raised
    /\ calls' = o.calls
    /\ resp' = o.resp

SendWhatsapp ==
    /\ phase = "serving"
    /\ \E r \in PostRequests, p \in CreateAnswers : Record(r, p, PostSend(r, globals, p))
    /\ UNCHANGED <<phase, environ, dotenv, globals>>

VerifyConfig ==
    /\ phase = "serving"
    /\ \E p \in FetchAnswers :
         LET h == verify_config(globals, p)
         IN  Record(Get("/verify-config"), p, Outcome({}, <<>>, h.raised, h.calls, h.resp))
    /\ UNCHANGED <<phase, environ, dotenv, globals>>

Root ==
    /\ phase = "serving"
    /\ Record(Get("/"), NoAnswer, Outcome({}, <<>>, "none", <<>>, root))
    /\ UNCHANGED <<phase, environ, dotenv, globals>>

(***************************************************************************)
(* The process                                                             *)
(***************************************************************************)
Sid == <<"A", "C", "1">>

Token == <<"t", "o", "k">>

Number(d) == <<"+", "1", "4", d>>

\* the environments the process is started in: each required variable
\* unset, empty or set
Environments ==
    {e \in UNION {[S -> {<<>>, Sid, Token, Number("1")}] : S \in SUBSET RequiredNames} :
        \A var \in DOMAIN e :
            e[var] \in {<<>>, CASE var = "TWILIO_ACCOUNT_SID" -> Sid
                                [] var = "TWILIO_AUTH_TOKEN" -> Token
                                [] OTHER -> Number("1")}}

\* the .env files: none, and one that sets the sender number
DotenvFiles ==
    { [var \in {} |-> <<>>],
      [var \in {"TWILIO_WHATSAPP_NUMBER"} |-> Number("2")] }

Init ==
    /\ phase = "importing"
    /\ environ \in Environments
    /\ dotenv \in DotenvFiles
    /\ globals = Bind({})
    /\ provider = NoAnswer
    /\ req = NoRequest
    /\ errors = {}
    /\ message = <<>>
    /\ raised = "none"
    /\ calls = <<>>
    /\ resp = NoResponse

Next == Startup \/ SendWhatsapp \/ VerifyConfig \/ Root

Spec == Init /\ [][Next]_vars

(***************************************************************************)
(* The except clause of the send endpoint on its own: client.messages.     *)
(* create has been called for a valid request and has raised, and the      *)
(* except clause of lines 193-201 and the HTTPException handler turn the   *)
(* exception into the response.                                            *)
(* Under Spec the clause only ever sees the NameError of SendTry, so the   *)
(* clause is applied here to the exceptions the provider call raises.      *)
(***************************************************************************)
Reasons ==
    {"The 'To' number is not a valid phone number.",
     "Authenticate",
     "The 'From' number is not a valid phone number.",
     "Account exceeded the daily messages limit",
     "Permission to send to this region is not enabled",
     "Message body is required",
     "The media URL is invalid",
     "Channel not found",
     "Attempt to send to unsubscribed recipient",
     "Too many requests"}

\* the provider's error codes; "" when the error carries none
ErrorCodes == {"", "21211", "20003", "21608", "63007"}

\* str(e) as printed on a terminal, with the "more information" part when
\* the error has a code
TerminalMsg(reason, code) ==
    RejectedMsg(reason)
    \o (IF code = "" THEN <<>>
        ELSE ESC("37") \o <<"More information may be available here:">> \o ESC("0")
             \o ESC("34") \o <<"https://www.twilio.com/docs/errors/", code>> \o ESC("0"))

\* str(e) when the standard error stream is no terminal
PlainMsg(reason) == <<"HTTP 400 error: ", "Unable to create record: ", reason>>

FailedCreateAnswers ==
    {[op |-> "messages.create", outcome |-> "rejected", msg |-> TerminalMsg(r, c)] :
        r \in Reasons, c \in ErrorCodes}
    \cup {[op |-> "messages.create", outcome |-> "rejected", msg |-> PlainMsg(r)] :
            r \in Reasons}
    \cup {[op |-> "messages.create", outcome |-> "transport", msg |-> <<m>>] :
            m \in {"Connection refused", "Read timed out"}}

ValidObjects ==
    {Json(Str(ExampleTo), Str(ExampleBody), media) :
        media \in {Absent, Str(HttpsHost \o <<"/", "f", ".", "p", "n", "g">>)}}

InitExcept ==
    /\ phase = "in_send"
    /\ environ = [var \in RequiredNames |->
                    CASE var = "TWILIO_ACCOUNT_SID" -> Sid
                      [] var = "TWILIO_AUTH_TOKEN" -> Token
                      [] OTHER -> Number("1")]
    /\ dotenv = [var \in {} |-> <<>>]
    /\ globals = Bind(NamesBeforeClient \cup NamesFromClient)
    /\ provider \in FailedCreateAnswers
    /\ \E obj \in ValidObjects :
         /\ req = Post("json_object", obj)
         /\ message = <<WhatsAppMessage(obj)>>
         /\ calls = <<CreateCall(message_params(WhatsAppMessage(obj), Number("1")))>>
    /\ errors = {}
    /\ raised = "none"
    /\ resp = NoResponse

\* lines 193-201, then http_exception_handler
SendRaised ==
    /\ phase = "in_send"
    /\ phase' = "serving"
    /\ raised' = CreateRaises(provider).class
    /\ resp' = http_exception_handler(SendExcept(CreateRaises(provider)))
    /\ UNCHANGED <<environ, dotenv, globals, provider, req, errors, message, calls>>

NextExcept == SendRaised

SpecExcept == InitExcept /\ [][NextExcept]_vars

(***************************************************************************)
(* What the claims speak of                                                *)
(***************************************************************************)
IsSend == req.method = "POST"

IsJsonSend == IsSend /\ req.raw = "json_object"

CreateCount == Cardinality({i \in 1..Len(calls) : calls[i].op = "messages.create"})

\* "whatsapp:+" followed by 10 to 15 decimal digits
StrictRecipient(s) ==
    /\ StartsWith(s, WhatsAppPrefix)
    /\ Len(s) - Len(WhatsAppPrefix) \in 10..15
    /\ \A i \in (Len(WhatsAppPrefix) + 1)..Len(s) : s[i] \in AsciiDigits

\* the lowercased path of the URL ends with an allowed extension
PathHasAllowedExtension(u) ==
    \E ext \in allowed_extensions : EndsWith(Lower(UrlPath(u)), ext)

FullyConfigured(e) ==
    /\ Truthy(e, "TWILIO_ACCOUNT_SID")
    /\ Truthy(e, "TWILIO_AUTH_TOKEN")
    /\ Truthy(e, "TWILIO_WHATSAPP_NUMBER")

\* the raw message holds ANSI escape codes and "Unable to create record: <reason>"
IsWrappedRejection(msg) ==
    /\ \E i \in 1..Len(msg) : msg[i] = "ESC["
    /\ \E i \in 1..(Len(msg) - 1) : msg[i] = "Unable to create record: "

ReasonOf(msg) ==
    msg[1 + CHOOSE i \in 1..(Len(msg) - 1) : msg[i] = "Unable to create record: "]

(***************************************************************************)
(* The claims                                                              *)
(***************************************************************************)

\* C1: for every POST /send-whatsapp/ the provider's create-message operation
\* is invoked zero times when the request is rejected as malformed or fails
\* validation, and exactly once when the request passes validation.
C1_ForwardedExactlyOnce ==
    IsSend =>
        /\ (message = <<>> => CreateCount = 0)
        /\ (message # <<>> => CreateCount = 1)

\* C2: every recipient that is not "whatsapp:+" followed by 10 to 15 decimal
\* digits is rejected as a validation failure (HTTP 422) and the provider is
\* not invoked.
C2_NonStrictRecipientRejected ==
    (IsJsonSend /\ req.json.to.t = "str" /\ ~StrictRecipient(req.json.to.s)) =>
        /\ Loc("to") \in errors
        /\ resp.status = 422
        /\ calls = <<>>

C4_BadMediaRejected ==
    (IsJsonSend /\ req.json.media_url.t = "str") =>
        LET u == req.json.media_url.s
        IN  (\/ UrlScheme(u) = <<>>
             \/ UrlNetloc(u) = <<>>
             \/ Len(u) > MaxUrlLen
             \/ ~PathHasAllowedExtension(u)) =>
                /\ Loc("media_url") \in errors
                /\ calls = <<>>

\* C5: a request with a valid recipient, a valid body of 1 to 1600 characters
\* and no media URL reaches the provider call with sender "whatsapp:" + the
\* configured number, the recipient unchanged, the trimmed body and no media
\* field.
C5_TextMessageForwarded ==
    (/\ IsJsonSend
     /\ req.json.to.t = "str" /\ StrictRecipient(req.json.to.s)
     /\ req.json.body.t = "str"
     /\ Len(req.json.body.s) \in 1..MaxBodyLen /\ Strip(req.json.body.s) # <<>>
     /\ req.json.media_url.t \in {"absent", "null"}) =>
        calls = <<CreateCall([from_ |-> ChannelTag \o environ["TWILIO_WHATSAPP_NUMBER"],
                              to |-> req.json.to.s,
                              body |-> Strip(req.json.body.s)])>>

\* C6: the status of a send response is set by the class of the outcome:
\* unparseable JSON 400, field validation failure 422, provider rejection 400,
\* transport failure or any other unexpected exception 500, success 200.
C6_StatusByOutcome ==
    IsSend =>
        /\ req.raw = "invalid_json" => resp.status = 400
        /\ errors # {} => resp.status = 422
        /\ raised = "TwilioRestException" => resp.status = 400
        /\ raised \notin {"none", "TwilioRestException"} => resp.status = 500
        /\ (message # <<>> /\ raised = "none") => resp.status = 200

\* C7: GET /verify-config issues a single account-fetch call; when the fetch
\* succeeds it answers 200 with the auth-working flag true, the account
\* identifier and the account status; when the fetch fails it answers 500
\* with the failure envelope.
C7_VerifyConfig ==
    (req.path = "/verify-config") =>
        /\ Len(calls) = 1
        /\ calls[1].op = "accounts.fetch"
        /\ provider.outcome = "ok" =>
              /\ resp.status = 200
              /\ resp.content.twilio_auth_working = TRUE
              /\ resp.content.twilio_account_sid = environ["TWILIO_ACCOUNT_SID"]
              /\ "account_status" \in DOMAIN resp.content
        /\ provider.outcome = "fail" =>
              /\ resp.status = 500
              /\ resp.content.error_type = "api_error"

C9_FailureEnvelope ==
    resp.status >= 400 =>
        /\ {"detail", "error_type"} \subseteq DOMAIN resp.content
        /\ resp.content.error_type \in {"api_error", "validation_error"}

\* C10: the process serves only if, at start-up, the three required variables
\* were all set and not empty and the credential check succeeded; a request
\* is handled only by a serving process; from the end of start-up on the
\* environment never changes and a process that failed to start never serves.
C10_StartupGatesServing ==
    /\ [](phase = "serving" => FullyConfigured(environ))
    /\ [](req.method # "none" => phase = "serving" /\ FullyConfigured(environ))
    /\ [][(phase = "importing" /\ phase' = "serving") =>
            /\ FullyConfigured(environ')
            /\ provider'.op = "accounts.fetch" /\ provider'.outcome = "ok"
            /\ Len(calls') = 1 /\ calls'[1].op = "accounts.fetch"]_vars
    /\ [][phase # "importing" => (environ' = environ /\ phase' = phase)]_vars

\* C10 witness: a request has been handled by a process whose sender number
\* came from the .env file.
C10_Witness ==
    /\ phase = "serving"
    /\ IsSend
    /\ "TWILIO_WHATSAPP_NUMBER" \in DOMAIN dotenv
    /\ environ["TWILIO_WHATSAPP_NUMBER"] = dotenv["TWILIO_WHATSAPP_NUMBER"]
    /\ resp.status # 0

=============================================================================
